---- MODULE Spec2Model ----
(***************************************************************************)
(* MSS SPI master/slave loopback example (application code on hart u54_1). *)
(*                                                                         *)
(* SPI0 is the controller (master), SPI1 the responder (slave).  The       *)
(* controller loop sends a one-byte command followed by four turnaround    *)
(* bytes and reads eight reply bytes; the responder's command handler      *)
(* stages one row of g_slave_tx_buffer as the reply.  The application code *)
(* is modelled from the source; the MSS SPI driver and the SPI hardware    *)
(* (byte clocking, interrupt dispatch, overflow detection) are modelled    *)
(* from the protocol description.                                          *)
(***************************************************************************)
EXTENDS Integers, Sequences, FiniteSets, TLC

\* ------------------------------------------------------------------------
\* Macro definitions
\* ------------------------------------------------------------------------
COMMAND_BYTE_SIZE == 1
NB_OF_TURNAROUND_BYTES == 4
SLAVE_NB_OF_COMMANDS == 4
SLAVE_PACKET_LENGTH == 8

\* sizeof(g_master_tx_buffer), sizeof(g_master_rx_buffer), sizeof(g_slave_rx_buffer)
MASTER_TX_SIZE == 5
MASTER_RX_SIZE == 8
SLAVE_RX_SIZE == 13

\* Priority given to both SPI interrupt sources.
SPI_PLIC_PRIORITY == 2

Byte == 0..255

\* The two SPI cores; the number is the argument of the overflow handler.
SPI0 == 0
SPI1 == 1
Cores == {SPI0, SPI1}

\* A null response pointer.
NoRow == 0 - 1

\* Bytes a receiver may read when nothing defined is on the wire.
UndefBytes == {0, 255}

\* Faulty variant: the read size given to the transfer is sizeof(g_slave_rx_buffer).
FrameLen_SlaveRxSize == COMMAND_BYTE_SIZE + NB_OF_TURNAROUND_BYTES + SLAVE_RX_SIZE

\* Length of one frame on the wire: command, turnaround, reply.
FrameLen == COMMAND_BYTE_SIZE + NB_OF_TURNAROUND_BYTES + MASTER_RX_SIZE

VARIABLES
    pc,                  \* position of u54_1
    cmd_idx,             \* local of u54_1
    g_slave_tx_buffer,   \* the response table, stored flat: offset r*8+j
    g_master_tx_buffer,
    g_master_rx_buffer,
    g_slave_rx_buffer,
    clk_rst,             \* per core: "Reset", "Ready", "Recovering"
    irq_enabled,         \* __enable_irq done
    plic_priority,       \* per core
    spi_mode,            \* per core: "none", "master", "slave"
    overflow_handler,    \* per core: overflow handler registered
    slave_tx,            \* slave block tx buffer: [ptr, size]
    block_rx_handler,    \* frame-complete handler registered
    cmd_handler,         \* command handler registered
    cmd_size,            \* command prefix length
    slave_select,        \* slave select asserted
    pos,                 \* bytes exchanged in the current frame
    resp,                \* staged reply: [ptr, size]
    cmd_irq,             \* "idle", "pending", "done"
    ssend_irq,           \* frame-complete interrupt pending
    active,              \* handlers entered and not yet returned
    lost,                \* per core: receive stream lost bytes in this frame
    junk,                \* the undefined byte of this transport
    late,                \* a reply byte was clocked before the command handler returned
    frame_no,            \* history: frames started so far, counted modulo the table size
    rec,                 \* history: "none", "recovered" (an overflow recovery has
                         \* completed since the last frame started), "next" (this
                         \* frame is the first one started after a recovery)
    seen0,               \* history: some completed frame with command 0 has
                         \* delivered row 0 of the table to the controller
    ovf_arg,             \* argument of the last call of mss_spi_overflow_handler
    \* --- CAN examples (BasicCAN and FullCAN) ---
    can_mode,            \* which example runs: "BasicCAN" or "FullCAN"
    can_pc,              \* position of the CAN example's u54_1
    line,                \* the characters typed on the UART before ENTER
    rx_bytes,            \* local of u54_1
    g_temp,
    g_uart_to_can,
    loop_count,          \* local of u54_1
    no_of_msgs,          \* local of u54_1
    count,               \* local of u54_1
    msg_len,             \* local of u54_1
    chunk_size,          \* local of u54_1
    error_flag,          \* local of u54_1
    pmsg,                \* [DATA, DLC]
    tx_busy,             \* transmit request of tx buffer 0 still pending
    sent,                \* history: the messages accepted by the CAN driver
    tried,               \* history: number of calls of the send function
    report,              \* the status text written to the UART
    rx_buf,              \* [DATA, DLC]
    g_can_to_uart,
    int_status,          \* CAN interrupt status register, a set of flags
    read_irq_state,      \* local of CAN_IRQHandler
    irq_cleared,         \* history: flags CAN_IRQHandler cleared in its last run
    irq_branch           \* history: the branch CAN_IRQHandler took in its last run

spiVars == <<pc, cmd_idx, g_slave_tx_buffer, g_master_tx_buffer, g_master_rx_buffer,
             g_slave_rx_buffer, clk_rst, irq_enabled, plic_priority, spi_mode,
             overflow_handler, slave_tx, block_rx_handler, cmd_handler, cmd_size,
             slave_select, pos, resp, cmd_irq, ssend_irq, active, lost, junk, late,
             frame_no, rec, seen0>>

sendVars == <<can_pc, line, rx_bytes, g_temp, g_uart_to_can, loop_count, no_of_msgs,
              count, msg_len, chunk_size, error_flag, pmsg, tx_busy, sent, tried, report>>
recvVars == <<rx_buf, g_can_to_uart>>
irqVars == <<int_status, read_irq_state, irq_cleared, irq_branch>>
canVars == <<can_mode, sendVars, recvVars, irqVars>>

\* What the SPI example leaves alone.
otherVars == <<ovf_arg, canVars>>

vars == <<spiVars, ovf_arg, canVars>>

appVars == <<cmd_idx, g_slave_tx_buffer, g_master_tx_buffer, g_master_rx_buffer,
             g_slave_rx_buffer>>
cfgVars == <<clk_rst, irq_enabled, plic_priority, spi_mode, overflow_handler,
             slave_tx, block_rx_handler, cmd_handler, cmd_size>>
linkVars == <<slave_select, pos, resp, cmd_irq, ssend_irq, active, lost, junk, late,
              frame_no, rec, seen0>>

\* ------------------------------------------------------------------------
\* Data returned by SPI slave based on value of received command byte.
\* ------------------------------------------------------------------------
ResponseTable ==
    [off \in 0..(SLAVE_NB_OF_COMMANDS * SLAVE_PACKET_LENGTH - 1) |->
        16 * (off \div SLAVE_PACKET_LENGTH) + (off % SLAVE_PACKET_LENGTH) + 1]

\* &g_slave_tx_buffer[row][col] as an offset from &g_slave_tx_buffer[0][0].
AddrOf(row, col) == row * SLAVE_PACKET_LENGTH + col

\* Row r of a table, as the 8 bytes a reply carries.
RowOf(table, r) == [j \in 0..(SLAVE_PACKET_LENGTH - 1) |-> table[AddrOf(r, j)]]

\* Faulty variant: the last filler byte is 0x55.
MasterTxInit_Filler55 == [k \in 0..(MASTER_TX_SIZE - 1) |->
                    CASE k = 0 -> 0 [] k = 1 -> 1 [] k = 2 -> 2 [] k = 3 -> 3 [] OTHER -> 85]

MasterTxInit == [k \in 0..(MASTER_TX_SIZE - 1) |->
                    CASE k = 0 -> 0 [] k = 1 -> 1 [] k = 2 -> 2 [] k = 3 -> 3 [] OTHER -> 170]

\* mss_spi_overflow_handler has not been called.
NoOverflowCall == ovf_arg = NoRow

\* ------------------------------------------------------------------------
\* CAN examples: static variables
\* ------------------------------------------------------------------------
ENTER == 13

\* sizeof(g_uart_to_can), sizeof(g_temp), sizeof(g_can_to_uart)
UART_TO_CAN_SIZE == 32
TEMP_SIZE == 64
CAN_TO_UART_SIZE == 8

\* Indices of the DATA bytes of a CAN message object.
DataIndex == 0..7

\* A message object whose bytes are all zero.
ZeroMsg == [DATA |-> [k \in DataIndex |-> 0], DLC |-> 0]

\* The CAN interrupt status flags CAN_IRQHandler tests, in its order.
IrqFlags ==
    <<"CAN_INT_ARB_LOSS", "CAN_INT_OVR_LOAD", "CAN_INT_BIT_ERR", "CAN_INT_STUFF_ERR",
      "CAN_INT_ACK_ERR", "CAN_INT_FORM_ERR", "CAN_INT_CRC_ERR", "CAN_INT_BUS_OFF",
      "CAN_INT_RX_MSG_LOST", "CAN_INT_TX_MSG", "CAN_INT_RX_MSG", "CAN_INT_RTR_MSG",
      "CAN_INT_STUCK_AT_0", "CAN_INT_SST_FAILURE">>

\* The state of the CAN examples after the static initialisers; no example runs.
CanStatics ==
    /\ rx_bytes = 0
    /\ g_temp = [k \in 0..(TEMP_SIZE - 1) |-> 0]
    /\ g_uart_to_can = [k \in 0..(UART_TO_CAN_SIZE - 1) |-> 0]
    /\ loop_count = 0
    /\ no_of_msgs = 0
    /\ count = 0
    /\ msg_len = 0
    /\ chunk_size = 0
    /\ error_flag = 0
    /\ pmsg = ZeroMsg
    /\ tx_busy = FALSE
    /\ sent = <<>>
    /\ tried = 0
    /\ report = "none"
    /\ rx_buf = ZeroMsg
    /\ g_can_to_uart = [k \in 0..(CAN_TO_UART_SIZE - 1) |-> 0]
    /\ int_status = {}
    /\ read_irq_state = {}
    /\ irq_cleared = {}
    /\ irq_branch = "none"

CanIdle ==
    /\ can_mode = "none"
    /\ can_pc = "off"
    /\ line = <<>>
    /\ CanStatics

Init ==
    /\ pc = "reset"
    /\ cmd_idx = 0
    /\ g_slave_tx_buffer = ResponseTable
    /\ g_master_tx_buffer = MasterTxInit
    /\ g_master_rx_buffer = [k \in 0..(MASTER_RX_SIZE - 1) |-> 0]
    /\ g_slave_rx_buffer = [k \in 0..(SLAVE_RX_SIZE - 1) |-> 0]
    /\ clk_rst = [c \in Cores |-> "Reset"]
    /\ irq_enabled = FALSE
    /\ plic_priority = [c \in Cores |-> 0]
    /\ spi_mode = [c \in Cores |-> "none"]
    /\ overflow_handler = [c \in Cores |-> FALSE]
    /\ slave_tx = [ptr |-> NoRow, size |-> 0]
    /\ block_rx_handler = FALSE
    /\ cmd_handler = FALSE
    /\ cmd_size = 0
    /\ slave_select = FALSE
    /\ pos = 0
    /\ resp = [ptr |-> NoRow, size |-> 0]
    /\ cmd_irq = "idle"
    /\ ssend_irq = FALSE
    /\ active = {}
    /\ lost = [c \in Cores |-> FALSE]
    /\ junk \in UndefBytes
    /\ late = FALSE
    /\ frame_no = 0
    /\ rec = "none"
    /\ seen0 = FALSE
    /\ NoOverflowCall
    /\ CanIdle

\* ------------------------------------------------------------------------
\* Interrupt dispatch on the hart
\* ------------------------------------------------------------------------
Handlers == {"cmd", "frame", "ovf0", "ovf1"}

\* The interrupt source (SPI core) a handler is called from.
SourceOf(h) == IF h = "ovf0" THEN SPI0 ELSE SPI1

OvfOf(c) == IF c = SPI0 THEN "ovf0" ELSE "ovf1"

\* A handler of source c may start only when it outranks every running one.
MayEnter(c) ==
    /\ irq_enabled
    /\ \A a \in active : /\ SourceOf(a) # c
                         /\ plic_priority[c] > plic_priority[SourceOf(a)]

\* The handler the hart is executing: the one entered last outranks the rest.
Running(h) ==
    /\ h \in active
    /\ \A a \in active : plic_priority[SourceOf(a)] <= plic_priority[SourceOf(h)]

\* The foreground code runs only when no handler is running or waiting.
Foreground ==
    /\ active = {}
    /\ ~(irq_enabled /\ (cmd_irq = "pending" \/ ssend_irq))

\* ------------------------------------------------------------------------
\* u54_1: initialisation
\* ------------------------------------------------------------------------
\* mss_config_clk_rst(periph, hart, PERIPHERAL_ON): clock on, out of reset.
mss_config_clk_rst_on(state, c) == [state EXCEPT ![c] = "Ready"]

ResetPeripherals ==
    /\ pc = "reset"
    /\ Foreground
    /\ clk_rst' = mss_config_clk_rst_on(mss_config_clk_rst_on(clk_rst, SPI0), SPI1)
    /\ pc' = "plic"
    /\ UNCHANGED otherVars
    /\ UNCHANGED <<appVars, linkVars, irq_enabled, plic_priority, spi_mode,
                   overflow_handler, slave_tx, block_rx_handler, cmd_handler, cmd_size>>

\* Faulty variant: SPI1 is given a higher priority than SPI0.
PlicPriorities_Spi1Higher ==
    [c \in Cores |-> IF c = SPI1 THEN SPI_PLIC_PRIORITY + 1 ELSE SPI_PLIC_PRIORITY]

\* The priorities given to SPI0_PLIC and SPI1_PLIC.
PlicPriorities ==[c \in Cores |-> SPI_PLIC_PRIORITY]

PlicSetup ==
    /\ pc = "plic"
    /\ Foreground
    /\ irq_enabled' = TRUE
    /\ plic_priority' = PlicPriorities
    /\ pc' = "cfg_master"
    /\ UNCHANGED otherVars
    /\ UNCHANGED <<appVars, linkVars, clk_rst, spi_mode, overflow_handler,
                   slave_tx, block_rx_handler, cmd_handler, cmd_size>>

ConfigureMaster ==
    /\ pc = "cfg_master"
    /\ Foreground
    /\ spi_mode' = [spi_mode EXCEPT ![SPI0] = "master"]
    /\ overflow_handler' = [overflow_handler EXCEPT ![SPI0] = TRUE]
    /\ pc' = "cfg_slave"
    /\ UNCHANGED otherVars
    /\ UNCHANGED <<appVars, linkVars, clk_rst, irq_enabled, plic_priority,
                   slave_tx, block_rx_handler, cmd_handler, cmd_size>>

ConfigureSlave ==
    /\ pc = "cfg_slave"
    /\ Foreground
    /\ spi_mode' = [spi_mode EXCEPT ![SPI1] = "slave"]
    /\ overflow_handler' = [overflow_handler EXCEPT ![SPI1] = TRUE]
    /\ pc' = "set_buffers"
    /\ UNCHANGED otherVars
    /\ UNCHANGED <<appVars, linkVars, clk_rst, irq_enabled, plic_priority,
                   slave_tx, block_rx_handler, cmd_handler, cmd_size>>

SetSlaveBlockBuffers ==
    /\ pc = "set_buffers"
    /\ Foreground
    /\ slave_tx' = [ptr |-> AddrOf(0, 0),
                    size |-> COMMAND_BYTE_SIZE + NB_OF_TURNAROUND_BYTES]
    /\ block_rx_handler' = TRUE
    /\ pc' = "set_cmd"
    /\ UNCHANGED otherVars
    /\ UNCHANGED <<appVars, linkVars, clk_rst, irq_enabled, plic_priority, spi_mode,
                   overflow_handler, cmd_handler, cmd_size>>

\* Faulty variant: the whole prefix, turnaround bytes included, is given as command size.
CmdPrefixSize_WithTurnaround == COMMAND_BYTE_SIZE + NB_OF_TURNAROUND_BYTES

\* The command size given to MSS_SPI_set_cmd_handler.
CmdPrefixSize == COMMAND_BYTE_SIZE

\* Faulty variant: the call of MSS_SPI_set_cmd_handler is missing.
SetCmdHandler_Missing ==
    /\ pc = "set_cmd"
    /\ Foreground
    /\ pc' = "select0"
    /\ UNCHANGED otherVars
    /\ UNCHANGED <<appVars, linkVars, cfgVars>>

SetCmdHandler ==
    /\ pc = "set_cmd"
    /\ Foreground
    /\ cmd_handler' = TRUE
    /\ cmd_size' = CmdPrefixSize
    /\ pc' = "select0"
    /\ UNCHANGED otherVars
    /\ UNCHANGED <<appVars, linkVars, clk_rst, irq_enabled, plic_priority, spi_mode,
                   overflow_handler, slave_tx, block_rx_handler>>

FirstSlaveSelect ==
    /\ pc = "select0"
    /\ Foreground
    /\ slave_select' = TRUE
    /\ pc' = "select"
    /\ UNCHANGED otherVars
    /\ UNCHANGED <<appVars, cfgVars, pos, resp, cmd_irq, ssend_irq, active, lost,
                   junk, late, frame_no, rec, seen0>>

\* ------------------------------------------------------------------------
\* u54_1: the transfer loop
\* ------------------------------------------------------------------------
\* Faulty variant: the loop does not assert slave select again.
SetSlaveSelect_Skipped ==
    /\ pc = "select"
    /\ Foreground
    /\ pc' = "transfer"
    /\ UNCHANGED otherVars
    /\ UNCHANGED <<appVars, cfgVars, linkVars>>

\* Assert slave select.
SetSlaveSelect ==
    /\ pc = "select"
    /\ Foreground
    /\ slave_select' = TRUE
    /\ pc' = "transfer"
    /\ UNCHANGED otherVars
    /\ UNCHANGED <<appVars, cfgVars, pos, resp, cmd_irq, ssend_irq, active, lost,
                   junk, late, frame_no, rec, seen0>>

\* MSS_SPI_transfer_block is called: the frame starts with empty FIFOs.
TransferStart ==
    /\ pc = "transfer"
    /\ Foreground
    /\ pos' = 0
    /\ lost' = [lost EXCEPT ![SPI0] = FALSE]
    /\ late' = FALSE
    /\ frame_no' = (frame_no + 1) % SLAVE_NB_OF_COMMANDS
    /\ rec' = IF rec = "recovered" THEN "next" ELSE "none"
    /\ pc' = "xfer"
    /\ UNCHANGED otherVars
    /\ UNCHANGED <<appVars, cfgVars, slave_select, resp, cmd_irq, ssend_irq, active,
                   junk, seen0>>

\* Faulty variant: the transfer gives up after an overflow recovery, with the
\* frame unfinished.
TransferReturn_Timeout ==
    /\ pc = "xfer"
    /\ pos = FrameLen \/ rec = "recovered"
    /\ Foreground
    /\ pc' = "deselect"
    /\ seen0' = (seen0 \/ (g_master_tx_buffer[0] = 0
                              /\ g_master_rx_buffer = RowOf(ResponseTable, 0)))
    /\ UNCHANGED otherVars
    /\ UNCHANGED <<appVars, cfgVars, slave_select, pos, resp, cmd_irq, ssend_irq,
                   active, lost, junk, late, frame_no, rec>>

\* Faulty variant: the transfer waits for one byte more than the frame has.
TransferReturn_OneByteMore ==
    /\ pc = "xfer"
    /\ pos = FrameLen + 1
    /\ Foreground
    /\ pc' = "deselect"
    /\ seen0' = (seen0 \/ (g_master_tx_buffer[0] = 0
                              /\ g_master_rx_buffer = RowOf(ResponseTable, 0)))
    /\ UNCHANGED otherVars
    /\ UNCHANGED <<appVars, cfgVars, slave_select, pos, resp, cmd_irq, ssend_irq,
                   active, lost, junk, late, frame_no, rec>>

\* Faulty variant: a frame whose reply was staged too late ends the loop.
TransferReturn_ErrorOnLate ==
    /\ pc = "xfer"
    /\ pos = FrameLen
    /\ Foreground
    /\ pc' = IF late THEN "error" ELSE "deselect"
    /\ seen0' = (seen0 \/ (g_master_tx_buffer[0] = 0
                              /\ g_master_rx_buffer = RowOf(ResponseTable, 0)))
    /\ UNCHANGED otherVars
    /\ UNCHANGED <<appVars, cfgVars, slave_select, pos, resp, cmd_irq, ssend_irq,
                   active, lost, junk, late, frame_no, rec>>

\* MSS_SPI_transfer_block returns once the whole frame has been exchanged.
TransferReturn ==
    /\ pc = "xfer"
    /\ pos = FrameLen
    /\ Foreground
    /\ pc' = "deselect"
    /\ seen0' = (seen0 \/ (g_master_tx_buffer[0] = 0
                              /\ g_master_rx_buffer = RowOf(ResponseTable, 0)))
    /\ UNCHANGED otherVars
    /\ UNCHANGED <<appVars, cfgVars, slave_select, pos, resp, cmd_irq, ssend_irq,
                   active, lost, junk, late, frame_no, rec>>

\* De-assert slave select: the responder sees the end of the frame.
ClearSlaveSelect ==
    /\ pc = "deselect"
    /\ Foreground
    /\ slave_select' = FALSE
    /\ ssend_irq' = block_rx_handler
    /\ pc' = "advance"
    /\ UNCHANGED otherVars
    /\ UNCHANGED <<appVars, cfgVars, pos, resp, cmd_irq, active, lost, junk, late, frame_no, rec, seen0>>

\* Faulty variant: the wrap test compares with the number of commands, not the last index.
NextCmdIdx_WrapAtN(idx) == IF SLAVE_NB_OF_COMMANDS = idx THEN 0 ELSE idx + 1

\* Issue a different command each time to the slave.
NextCmdIdx(idx) ==IF 3 = idx THEN 0 ELSE idx + 1

\* Faulty variant: the new command is stored in g_slave_tx_buffer, not g_master_tx_buffer.
Advance_WritesTable ==
    /\ pc = "advance"
    /\ Foreground
    /\ cmd_idx' = NextCmdIdx(cmd_idx)
    /\ g_slave_tx_buffer' = [g_slave_tx_buffer EXCEPT ![AddrOf(0, 0)] = NextCmdIdx(cmd_idx)]
    /\ pc' = "select"
    /\ UNCHANGED otherVars
    /\ UNCHANGED <<g_master_tx_buffer, g_master_rx_buffer, g_slave_rx_buffer, cfgVars,
                   linkVars>>

\* Faulty variant: the command is sent again when the reply is not a table row.
Advance_RetryOnBadReply ==
    /\ pc = "advance"
    /\ Foreground
    /\ cmd_idx' = IF \E i \in 0..(SLAVE_NB_OF_COMMANDS - 1) :
                         g_master_rx_buffer = RowOf(g_slave_tx_buffer, i)
                  THEN NextCmdIdx(cmd_idx) ELSE cmd_idx
    /\ g_master_tx_buffer' = [g_master_tx_buffer EXCEPT ![0] = cmd_idx']
    /\ pc' = "select"
    /\ UNCHANGED otherVars
    /\ UNCHANGED <<g_slave_tx_buffer, g_master_rx_buffer, g_slave_rx_buffer, cfgVars,
                   linkVars>>

Advance ==
    /\ pc = "advance"
    /\ Foreground
    /\ cmd_idx' = NextCmdIdx(cmd_idx)
    /\ g_master_tx_buffer' = [g_master_tx_buffer EXCEPT ![0] = NextCmdIdx(cmd_idx)]
    /\ pc' = "select"
    /\ UNCHANGED otherVars
    /\ UNCHANGED <<g_slave_tx_buffer, g_master_rx_buffer, g_slave_rx_buffer, cfgVars,
                   linkVars>>

\* ------------------------------------------------------------------------
\* The link: one byte is exchanged in each direction
\* ------------------------------------------------------------------------
\* Core c misses what it receives: it is being recovered, or has lost bytes
\* earlier in this frame and is out of step until the next frame.
Misses(c) == lost[c] \/ clk_rst[c] = "Recovering"

\* What the receive buffer of a core that misses bytes holds for this frame:
\* nothing defined.
Undefined(buf) == [k \in DOMAIN buf |-> junk]

\* Controller to responder: the command and turnaround bytes, then fill.
Mosi(k) == IF k < MASTER_TX_SIZE THEN g_master_tx_buffer[k] ELSE 0

\* Responder to controller: the block tx buffer, then the staged reply.
Miso(k) ==
    IF k < slave_tx.size
    THEN g_slave_tx_buffer[slave_tx.ptr + k]
    ELSE IF resp.ptr # NoRow /\ k - slave_tx.size < resp.size
         THEN g_slave_tx_buffer[resp.ptr + (k - slave_tx.size)]
         ELSE junk

\* Bytes of the frame the controller discards before it stores the reply.
ReplyStart == COMMAND_BYTE_SIZE + NB_OF_TURNAROUND_BYTES

\* The command interrupt is taken before the turnaround bytes have elapsed:
\* the last of them is not clocked while the interrupt still waits.
CmdIrqTaken ==
    pos + 1 >= ReplyStart => ~(cmd_irq = "pending" /\ "cmd" \notin active)

ClockByte ==
    /\ pc = "xfer"
    /\ pos < FrameLen
    /\ CmdIrqTaken
    /\ pos' = pos + 1
    /\ lost' = [c \in Cores |-> Misses(c)]
    /\ g_slave_rx_buffer' =
          IF Misses(SPI1)
          THEN Undefined(g_slave_rx_buffer)
          ELSE IF pos < SLAVE_RX_SIZE
               THEN [g_slave_rx_buffer EXCEPT ![pos] = Mosi(pos)]
               ELSE g_slave_rx_buffer
    /\ g_master_rx_buffer' =
          IF Misses(SPI0)
          THEN Undefined(g_master_rx_buffer)
          ELSE IF pos >= ReplyStart /\ pos - ReplyStart < MASTER_RX_SIZE
               THEN [g_master_rx_buffer EXCEPT ![pos - ReplyStart] = Miso(pos)]
               ELSE g_master_rx_buffer
    /\ cmd_irq' = IF cmd_handler /\ cmd_irq = "idle" /\ pos + 1 = cmd_size
                  THEN "pending" ELSE cmd_irq
    /\ late' = (late \/ (pos >= ReplyStart /\ cmd_irq # "done"))
    /\ UNCHANGED otherVars
    /\ UNCHANGED <<pc, cmd_idx, g_slave_tx_buffer, g_master_tx_buffer, cfgVars,
                   slave_select, resp, ssend_irq, active, junk, frame_no, rec, seen0>>

\* ------------------------------------------------------------------------
\* SPI slave command handler
\* ------------------------------------------------------------------------
\* Faulty variant: the command byte indexes the column instead of the row.
spi1_slave_cmd_handler_ColumnIndex(rx_buff, rx_size) ==
    LET index == rx_buff[0]
        p_response == IF index < SLAVE_NB_OF_COMMANDS
                      THEN AddrOf(0, index)
                      ELSE AddrOf(0, 0)
    IN  [ptr |-> p_response, size |-> SLAVE_PACKET_LENGTH]

\* Faulty variant: the range test admits index SLAVE_NB_OF_COMMANDS.
spi1_slave_cmd_handler_OffByOne(rx_buff, rx_size) ==
    LET index == rx_buff[0]
        p_response == IF index <= SLAVE_NB_OF_COMMANDS
                      THEN AddrOf(index, 0)
                      ELSE AddrOf(0, 0)
    IN  [ptr |-> p_response, size |-> SLAVE_PACKET_LENGTH]

\* Faulty variant: the index is taken from the last byte received, not the first.
spi1_slave_cmd_handler_LastByte(rx_buff, rx_size) ==
    LET index == rx_buff[rx_size - 1]
        p_response == IF index < SLAVE_NB_OF_COMMANDS
                      THEN AddrOf(index, 0)
                      ELSE AddrOf(0, 0)
    IN  [ptr |-> p_response, size |-> SLAVE_PACKET_LENGTH]

spi1_slave_cmd_handler(rx_buff, rx_size) ==
    LET index == rx_buff[0]
        p_response == IF index < SLAVE_NB_OF_COMMANDS
                      THEN AddrOf(index, 0)
                      ELSE AddrOf(0, 0)
    IN  [ptr |-> p_response, size |-> SLAVE_PACKET_LENGTH]

CmdEnter ==
    /\ cmd_irq = "pending"
    /\ MayEnter(SPI1)
    /\ active' = active \cup {"cmd"}
    /\ UNCHANGED otherVars
    /\ UNCHANGED <<pc, appVars, cfgVars, slave_select, pos, resp, cmd_irq, ssend_irq,
                   lost, junk, late, frame_no, rec, seen0>>

\* Faulty variant: the handler clears the command byte after reading it.
CmdReturn_ClearsCommand ==
    /\ Running("cmd")
    /\ resp' = spi1_slave_cmd_handler(g_slave_rx_buffer, pos)
    /\ g_slave_rx_buffer' = [g_slave_rx_buffer EXCEPT ![0] = 0]
    /\ cmd_irq' = "done"
    /\ active' = active \ {"cmd"}
    /\ UNCHANGED otherVars
    /\ UNCHANGED <<pc, cmd_idx, g_slave_tx_buffer, g_master_tx_buffer,
                   g_master_rx_buffer, cfgVars, slave_select, pos, ssend_irq, lost,
                   junk, late, frame_no, rec, seen0>>

\* The driver calls the command handler, which stages the reply with
\* MSS_SPI_set_cmd_response and writes nothing else.
CmdReturn ==
    /\ Running("cmd")
    /\ resp' = spi1_slave_cmd_handler(g_slave_rx_buffer, pos)
    /\ cmd_irq' = "done"
    /\ active' = active \ {"cmd"}
    /\ UNCHANGED otherVars
    /\ UNCHANGED <<pc, appVars, cfgVars, slave_select, pos, ssend_irq, lost, junk, late, frame_no, rec, seen0>>

\* ------------------------------------------------------------------------
\* SPI slave receive completion handler
\* ------------------------------------------------------------------------
FrameEnter ==
    /\ ssend_irq
    /\ cmd_irq # "pending"
    /\ "frame" \notin active
    /\ MayEnter(SPI1)
    /\ active' = active \cup {"frame"}
    /\ UNCHANGED otherVars
    /\ UNCHANGED <<pc, appVars, cfgVars, slave_select, pos, resp, cmd_irq, ssend_irq,
                   lost, junk, late, frame_no, rec, seen0>>

\* Faulty variant: the handler clears the receive buffer it is given.
FrameReturn_ClearsBuffer ==
    /\ Running("frame")
    /\ g_slave_rx_buffer' = [k \in DOMAIN g_slave_rx_buffer |-> 0]
    /\ ssend_irq' = FALSE
    /\ cmd_irq' = "idle"
    /\ lost' = [lost EXCEPT ![SPI1] = FALSE]
    /\ active' = active \ {"frame"}
    /\ UNCHANGED otherVars
    /\ UNCHANGED <<pc, cmd_idx, g_slave_tx_buffer, g_master_tx_buffer,
                   g_master_rx_buffer, cfgVars, slave_select, pos, resp, junk, late,
                   frame_no, rec, seen0>>

\* The driver calls spi1_block_rx_handler, whose body is empty, and makes
\* the responder ready for the next frame.
FrameReturn ==
    /\ Running("frame")
    /\ ssend_irq' = FALSE
    /\ cmd_irq' = "idle"
    /\ lost' = [lost EXCEPT ![SPI1] = FALSE]
    /\ active' = active \ {"frame"}
    /\ UNCHANGED otherVars
    /\ UNCHANGED <<pc, appVars, cfgVars, slave_select, pos, resp, junk, late, frame_no, rec, seen0>>

\* ------------------------------------------------------------------------
\* SPI buffer overflow handler
\* ------------------------------------------------------------------------
\* Faulty variant: the handler also switches the other core off.
mss_spi_overflow_handler_OtherOff(state, mss_spi_core) ==
    IF mss_spi_core # 0
    THEN [mss_config_clk_rst_on(state, SPI1) EXCEPT ![SPI0] = "Reset"]
    ELSE [mss_config_clk_rst_on(state, SPI0) EXCEPT ![SPI1] = "Reset"]

\* Faulty variant: the test of the core number is inverted.
mss_spi_overflow_handler_Inverted(state, mss_spi_core) ==
    IF mss_spi_core = 0
    THEN mss_config_clk_rst_on(state, SPI1)
    ELSE mss_config_clk_rst_on(state, SPI0)

\* Faulty variant: the branch for SPI0 is missing.
mss_spi_overflow_handler_NoElse(state, mss_spi_core) ==
    IF mss_spi_core # 0
    THEN mss_config_clk_rst_on(state, SPI1)
    ELSE state

mss_spi_overflow_handler(state, mss_spi_core) ==
    IF mss_spi_core # 0
    THEN mss_config_clk_rst_on(state, SPI1)
    ELSE mss_config_clk_rst_on(state, SPI0)

\* The driver of core c detects an overflow and starts its recovery.
OverflowEnter(c) ==
    /\ overflow_handler[c]
    /\ clk_rst[c] = "Ready"
    /\ MayEnter(c)
    /\ clk_rst' = [clk_rst EXCEPT ![c] = "Recovering"]
    /\ active' = active \cup {OvfOf(c)}
    /\ UNCHANGED otherVars
    /\ UNCHANGED <<pc, appVars, irq_enabled, plic_priority, spi_mode, overflow_handler,
                   slave_tx, block_rx_handler, cmd_handler, cmd_size, slave_select,
                   pos, resp, cmd_irq, ssend_irq, lost, junk, late, frame_no, rec, seen0>>

\* The driver calls the overflow handler with the number of its core.
OverflowReturn(c) ==
    /\ Running(OvfOf(c))
    /\ clk_rst' = mss_spi_overflow_handler(clk_rst, c)
    /\ active' = active \ {OvfOf(c)}
    /\ rec' = "recovered"
    /\ UNCHANGED otherVars
    /\ UNCHANGED <<pc, appVars, irq_enabled, plic_priority, spi_mode, overflow_handler,
                   slave_tx, block_rx_handler, cmd_handler, cmd_size, slave_select,
                   pos, resp, cmd_irq, ssend_irq, lost, junk, late, frame_no, seen0>>

Next ==
    \/ ResetPeripherals
    \/ PlicSetup
    \/ ConfigureMaster
    \/ ConfigureSlave
    \/ SetSlaveBlockBuffers
    \/ SetCmdHandler
    \/ FirstSlaveSelect
    \/ SetSlaveSelect
    \/ TransferStart
    \/ ClockByte
    \/ TransferReturn
    \/ ClearSlaveSelect
    \/ Advance
    \/ CmdEnter
    \/ CmdReturn
    \/ FrameEnter
    \/ FrameReturn
    \/ \E c \in Cores : OverflowEnter(c)
    \/ \E c \in Cores : OverflowReturn(c)

Spec == Init /\ [][Next]_vars

\* ------------------------------------------------------------------------
\* The same program under fair scheduling.  u54_1 runs whenever no handler
\* runs or waits; handlers are entered when their interrupt is raised and
\* the hart can take it, and run to their end; a started block transfer
\* keeps exchanging bytes.  Overflows may be reported at any time, any
\* number of times.
\* ------------------------------------------------------------------------
\* The steps of u54_1 itself.
Sequencer ==
    \/ ResetPeripherals
    \/ PlicSetup
    \/ ConfigureMaster
    \/ ConfigureSlave
    \/ SetSlaveBlockBuffers
    \/ SetCmdHandler
    \/ FirstSlaveSelect
    \/ SetSlaveSelect
    \/ TransferStart
    \/ TransferReturn
    \/ ClearSlaveSelect
    \/ Advance

HandlerEntry == CmdEnter \/ FrameEnter

HandlerReturn ==
    \/ CmdReturn
    \/ FrameReturn
    \/ \E c \in Cores : OverflowReturn(c)

Fairness ==
    /\ SF_vars(Sequencer)
    /\ SF_vars(ClockByte)
    /\ SF_vars(HandlerEntry)
    /\ WF_vars(HandlerReturn)

FairSpec == Spec /\ Fairness

\* ------------------------------------------------------------------------
\* The responder under a controller that may send any command byte: the
\* byte in g_master_tx_buffer[0] is drawn from all 256 values and sent in
\* every frame, instead of cmd_idx.  No overflow is reported here.
\* ------------------------------------------------------------------------
InitAnyCmd ==
    /\ pc = "reset"
    /\ cmd_idx = 0
    /\ g_slave_tx_buffer = ResponseTable
    /\ \E b \in Byte : g_master_tx_buffer = [MasterTxInit EXCEPT ![0] = b]
    /\ g_master_rx_buffer = [k \in 0..(MASTER_RX_SIZE - 1) |-> 0]
    /\ g_slave_rx_buffer = [k \in 0..(SLAVE_RX_SIZE - 1) |-> 0]
    /\ clk_rst = [c \in Cores |-> "Reset"]
    /\ irq_enabled = FALSE
    /\ plic_priority = [c \in Cores |-> 0]
    /\ spi_mode = [c \in Cores |-> "none"]
    /\ overflow_handler = [c \in Cores |-> FALSE]
    /\ slave_tx = [ptr |-> NoRow, size |-> 0]
    /\ block_rx_handler = FALSE
    /\ cmd_handler = FALSE
    /\ cmd_size = 0
    /\ slave_select = FALSE
    /\ pos = 0
    /\ resp = [ptr |-> NoRow, size |-> 0]
    /\ cmd_irq = "idle"
    /\ ssend_irq = FALSE
    /\ active = {}
    /\ lost = [c \in Cores |-> FALSE]
    /\ junk \in UndefBytes
    /\ late = FALSE
    /\ frame_no = 0
    /\ rec = "none"
    /\ seen0 = FALSE
    /\ NoOverflowCall
    /\ CanIdle

\* The same command byte is issued again.
ReissueCmd ==
    /\ pc = "advance"
    /\ Foreground
    /\ pc' = "select"
    /\ UNCHANGED otherVars
    /\ UNCHANGED <<appVars, cfgVars, linkVars>>

NextAnyCmd ==
    \/ ResetPeripherals
    \/ PlicSetup
    \/ ConfigureMaster
    \/ ConfigureSlave
    \/ SetSlaveBlockBuffers
    \/ SetCmdHandler
    \/ FirstSlaveSelect
    \/ SetSlaveSelect
    \/ TransferStart
    \/ ClockByte
    \/ TransferReturn
    \/ ClearSlaveSelect
    \/ ReissueCmd
    \/ CmdEnter
    \/ CmdReturn
    \/ FrameEnter
    \/ FrameReturn

SpecAnyCmd == InitAnyCmd /\ [][NextAnyCmd]_vars

\* ------------------------------------------------------------------------
\* The responder under a controller that may send any command byte and any
\* turnaround bytes: the whole of g_master_tx_buffer is drawn at start.
\* ------------------------------------------------------------------------
\* Turnaround bytes tried: those of the program, all zeros, all ones, a ramp.
FillerSamples ==
    { [k \in 1..NB_OF_TURNAROUND_BYTES |->
          CASE k = 1 -> 1 [] k = 2 -> 2 [] k = 3 -> 3 [] OTHER -> 170],
      [k \in 1..NB_OF_TURNAROUND_BYTES |-> 0],
      [k \in 1..NB_OF_TURNAROUND_BYTES |-> 255],
      [k \in 1..NB_OF_TURNAROUND_BYTES |-> 4 - k] }

\* The state after the static initialisers, with tx as g_master_tx_buffer.
PowerOn(tx) ==
    /\ pc = "reset"
    /\ cmd_idx = 0
    /\ g_slave_tx_buffer = ResponseTable
    /\ g_master_tx_buffer = tx
    /\ g_master_rx_buffer = [k \in 0..(MASTER_RX_SIZE - 1) |-> 0]
    /\ g_slave_rx_buffer = [k \in 0..(SLAVE_RX_SIZE - 1) |-> 0]
    /\ clk_rst = [c \in Cores |-> "Reset"]
    /\ irq_enabled = FALSE
    /\ plic_priority = [c \in Cores |-> 0]
    /\ spi_mode = [c \in Cores |-> "none"]
    /\ overflow_handler = [c \in Cores |-> FALSE]
    /\ slave_tx = [ptr |-> NoRow, size |-> 0]
    /\ block_rx_handler = FALSE
    /\ cmd_handler = FALSE
    /\ cmd_size = 0
    /\ slave_select = FALSE
    /\ pos = 0
    /\ resp = [ptr |-> NoRow, size |-> 0]
    /\ cmd_irq = "idle"
    /\ ssend_irq = FALSE
    /\ active = {}
    /\ lost = [c \in Cores |-> FALSE]
    /\ junk \in UndefBytes
    /\ late = FALSE
    /\ frame_no = 0
    /\ rec = "none"
    /\ seen0 = FALSE

InitAnyFrame ==
    /\ \E b \in Byte, f \in FillerSamples :
          PowerOn([k \in 0..(MASTER_TX_SIZE - 1) |-> IF k = 0 THEN b ELSE f[k]])
    /\ NoOverflowCall
    /\ CanIdle

SpecAnyFrame == InitAnyFrame /\ [][NextAnyCmd]_vars

\* ------------------------------------------------------------------------
\* The overflow handler under a driver that may call it with any argument:
\* a core is reported as overflowed and the handler is then called with a
\* byte drawn from all 256 values.
\* ------------------------------------------------------------------------
InitAnyOverflow ==
    /\ PowerOn(MasterTxInit)
    /\ NoOverflowCall
    /\ CanIdle

\* Core c is held for recovery.
OverflowReport(c) ==
    /\ clk_rst[c] # "Recovering"
    /\ clk_rst' = [clk_rst EXCEPT ![c] = "Recovering"]
    /\ UNCHANGED <<pc, appVars, irq_enabled, plic_priority, spi_mode, overflow_handler,
                   slave_tx, block_rx_handler, cmd_handler, cmd_size, linkVars>>
    /\ UNCHANGED otherVars

\* mss_spi_overflow_handler(x) is called.
OverflowCall(x) ==
    /\ clk_rst' = mss_spi_overflow_handler(clk_rst, x)
    /\ ovf_arg' = x
    /\ UNCHANGED <<pc, appVars, irq_enabled, plic_priority, spi_mode, overflow_handler,
                   slave_tx, block_rx_handler, cmd_handler, cmd_size, linkVars>>
    /\ UNCHANGED canVars

NextAnyOverflow ==
    \/ \E c \in Cores : OverflowReport(c)
    \/ \E x \in Byte : OverflowCall(x)

SpecAnyOverflow == InitAnyOverflow /\ [][NextAnyOverflow]_vars

\* ========================================================================
\* Properties
\* ========================================================================
\* The command byte of the current frame and the reply the controller holds.
Command == g_master_tx_buffer[0]
Reply == g_master_rx_buffer

\* Row i of the response table as documented: {0x10*i+1, ..., 0x10*i+8}.
DocumentedRow(i) == [j \in 0..(SLAVE_PACKET_LENGTH - 1) |-> 16 * i + j + 1]

\* MSS_SPI_transfer_block has returned and the next command is not yet written.
FrameDone == pc = "deselect"

\* The command handler returned before the first reply byte was clocked.
InTime == ~late

\* Neither core missed bytes of the current frame during an overflow recovery.
NoLoss == \A c \in Cores : ~lost[c]

StagedBytes ==
    [j \in 0..(resp.size - 1) |-> g_slave_tx_buffer[resp.ptr + j]]

C2_FallbackRow0 ==
    (Command >= SLAVE_NB_OF_COMMANDS /\ pc \in {"xfer", "deselect"})
        => /\ ENABLED NextAnyCmd
           /\ cmd_irq = "done"
                 => /\ resp = [ptr |-> AddrOf(0, 0), size |-> SLAVE_PACKET_LENGTH]
                    /\ resp.ptr + resp.size <= SLAVE_NB_OF_COMMANDS * SLAVE_PACKET_LENGTH
                    /\ StagedBytes = DocumentedRow(0)
           /\ (FrameDone /\ InTime) => Reply = DocumentedRow(0)

C2_Witness ==
    /\ FrameDone /\ InTime
    /\ Command = 255
    /\ resp.ptr = AddrOf(0, 0)
    /\ Reply = DocumentedRow(0)

\* ------------------------------------------------------------------------
\* C3 as stated: in every reachable state, whatever the interleaving of the
\* command handler, the frame-complete handler and overflow events, the
\* reply the controller holds for a completed frame with command i < 4 is
\* row i of the table.
C3_Original ==
    (FrameDone /\ Command < SLAVE_NB_OF_COMMANDS) => Reply = DocumentedRow(Command)

\* ------------------------------------------------------------------------
\* C4: the command bytes of consecutive frames are 0,1,2,3,0,1,2,3,...: the
\* k-th frame started carries (k - 1) mod 4, which is also cmd_idx, and
\* cmd_idx changes only at the end of a loop pass, by exactly 1 modulo 4,
\* together with the command byte.
FrameInFlight == pc \in {"xfer", "deselect"}

C4_CycleState ==
    FrameInFlight
        => /\ Command = (frame_no + SLAVE_NB_OF_COMMANDS - 1) % SLAVE_NB_OF_COMMANDS
           /\ Command = cmd_idx

C4_CycleStep ==
    /\ (pc = "advance" /\ pc' # "advance")
          => /\ cmd_idx' = (cmd_idx + 1) % SLAVE_NB_OF_COMMANDS
             /\ Command' = cmd_idx'
    /\ (cmd_idx' # cmd_idx \/ Command' # Command)
          => (pc = "advance" /\ pc' = "select")

C4_CommandCycle == [](C4_CycleState) /\ [][C4_CycleStep]_vars

C4_Witness ==
    /\ pc = "xfer"
    /\ Command = 0
    /\ frame_no = 1
    /\ Reply = DocumentedRow(3)

\* ------------------------------------------------------------------------
\* C5: in every frame the command handler is called exactly once: its
\* interrupt is raised when exactly COMMAND_BYTE_SIZE = 1 byte has been
\* received, it is entered before the 4 turnaround bytes have elapsed, and
\* it has returned before the frame-complete handler is entered; the two
\* handlers are never in progress together, and only the frame-complete
\* handler re-arms the command interrupt.
C5_OrderState ==
    /\ "frame" \in active => (cmd_irq = "done" /\ "cmd" \notin active /\ pc = "advance")
    /\ "cmd" \in active => (pc = "xfer" /\ cmd_irq = "pending")
    /\ FrameDone => cmd_irq = "done"

C5_OrderStep ==
    /\ (cmd_irq # "pending" /\ cmd_irq' = "pending")
          => (cmd_irq = "idle" /\ pos' = COMMAND_BYTE_SIZE)
    /\ ("cmd" \notin active /\ "cmd" \in active')
          => (pos >= COMMAND_BYTE_SIZE /\ pos < COMMAND_BYTE_SIZE + NB_OF_TURNAROUND_BYTES)
    /\ (cmd_irq # "done" /\ cmd_irq' = "done")
          => ("cmd" \in active /\ "cmd" \notin active')
    /\ (cmd_irq = "done" /\ cmd_irq' # "done")
          => (cmd_irq' = "idle" /\ "frame" \in active /\ "frame" \notin active')

C5_CallbackOrder == [](C5_OrderState) /\ [][C5_OrderStep]_vars

C5_Witness ==
    /\ "frame" \in active
    /\ cmd_irq = "done"
    /\ Command = 1
    /\ Reply = DocumentedRow(1)

\* ------------------------------------------------------------------------
\* C6: a step of the overflow recovery of core X (the driver entering it, or
\* the overflow handler called with X returning) leaves the response table,
\* cmd_idx, the controller transmit buffer and the channel state of the
\* other core unchanged; for X = SPI0 it also leaves the responder's staged
\* reply and command state unchanged, for X = SPI1 the controller's
\* position and receive buffer.
OverflowStep(c) == (OvfOf(c) \in active) # (OvfOf(c) \in active')

Other(c) == IF c = SPI0 THEN SPI1 ELSE SPI0

C6_OverflowFrameStep ==
    \A c \in Cores :
        OverflowStep(c)
            => /\ UNCHANGED <<g_slave_tx_buffer, cmd_idx, g_master_tx_buffer>>
               /\ clk_rst'[Other(c)] = clk_rst[Other(c)]
               /\ lost'[Other(c)] = lost[Other(c)]
               /\ c = SPI0 => UNCHANGED <<resp, cmd_irq, ssend_irq, g_slave_rx_buffer>>
               /\ c = SPI1 => UNCHANGED <<pc, pos, g_master_rx_buffer>>

C6_OverflowFrame == [][C6_OverflowFrameStep]_vars

C6_Witness ==
    /\ rec = "recovered"
    /\ active = {}
    /\ pc = "xfer"
    /\ cmd_irq = "done"
    /\ resp.ptr = AddrOf(2, 0)
    /\ pos > COMMAND_BYTE_SIZE + NB_OF_TURNAROUND_BYTES

\* ------------------------------------------------------------------------
\* C7: the first frame started after an overflow recovery (wherever the
\* overflow occurred) runs like any other frame: both cores are ready, all
\* handlers are still registered with the command size 1, the command
\* handler has been called by the end of the frame, and a reply staged in
\* time with no bytes missed is row i for command i < 4 (row 0 otherwise).
ExpectedRow(i) == IF i < SLAVE_NB_OF_COMMANDS THEN DocumentedRow(i) ELSE DocumentedRow(0)

C8_RecoverState ==
    \A c \in Cores : clk_rst[c] = "Recovering" => OvfOf(c) \in active

C8_RecoverStep ==
    \A c \in Cores :
        /\ (clk_rst[c] # "Recovering" /\ clk_rst'[c] = "Recovering")
              => (clk_rst[c] = "Ready" /\ OvfOf(c) \notin active /\ OvfOf(c) \in active')
        /\ (OvfOf(c) \in active /\ OvfOf(c) \notin active')
              => (clk_rst[c] = "Recovering" /\ clk_rst'[c] = "Ready")

C8_ReadyRecoveringReady == [](C8_RecoverState) /\ [][C8_RecoverStep]_vars

C8_Witness ==
    /\ rec = "recovered"
    /\ active = {}
    /\ \A c \in Cores : clk_rst[c] = "Ready"
    /\ lost[SPI0] /\ lost[SPI1]

\* ------------------------------------------------------------------------
\* C9 as stated: no core is Recovering while a frame is in flight on it,
\* that is, while MSS_SPI_transfer_block has started and not yet returned.
C9_Original ==
    \A c \in Cores : ~(clk_rst[c] = "Recovering" /\ pc = "xfer")

\* ------------------------------------------------------------------------
\* C10: the command handler, the frame-complete handler and the overflow
\* handlers never run concurrently: at most one handler is in progress at
\* any time (so no two of the same core), and the foreground loop does not
\* move while one is; bytes of the frame in flight are clocked meanwhile.
C10_OneHandlerState == Cardinality(active) <= 1

C10_OneHandlerStep ==
    /\ active # {} => pc' = pc
    /\ \A h \in active' \ active : active = {}

C10_HandlersSequential == [](C10_OneHandlerState) /\ [][C10_OneHandlerStep]_vars

C10_Witness ==
    /\ "cmd" \in active
    /\ pc = "xfer"
    /\ pos > COMMAND_BYTE_SIZE + NB_OF_TURNAROUND_BYTES
    /\ rec = "recovered"

\* ------------------------------------------------------------------------
\* C11: a call of the command handler, for every command byte 0..255,
\* changes nothing but the staged reply (pointer and length) of SPI1, and
\* the driver's note that the command has been handled: the response table,
\* cmd_idx, the controller's transmit and receive buffers, the responder's
\* receive buffer and all configuration stay as they were.
DispatchStep == "cmd" \in active /\ "cmd" \notin active'

C11_DispatchEffectStep ==
    DispatchStep
        => /\ resp' = [ptr |-> AddrOf(IF g_slave_rx_buffer[0] < SLAVE_NB_OF_COMMANDS
                                      THEN g_slave_rx_buffer[0] ELSE 0, 0),
                       size |-> SLAVE_PACKET_LENGTH]
           /\ UNCHANGED <<g_slave_tx_buffer, cmd_idx, g_master_tx_buffer,
                          g_master_rx_buffer, g_slave_rx_buffer>>
           /\ UNCHANGED <<pc, cfgVars, slave_select, pos, ssend_irq, lost>>

C11_DispatchEffect == [][C11_DispatchEffectStep]_vars

C11_Witness ==
    /\ pc = "xfer"
    /\ cmd_irq = "done"
    /\ g_slave_rx_buffer[0] = 200
    /\ resp = [ptr |-> AddrOf(0, 0), size |-> SLAVE_PACKET_LENGTH]
    /\ g_slave_tx_buffer = ResponseTable

\* ------------------------------------------------------------------------
\* C12: g_slave_tx_buffer is never written: in every reachable state, after
\* any sequence of frames, handler calls and overflow recoveries, its 4 rows
\* of 8 bytes hold their initial values {0x10*i+1, ..., 0x10*i+8}.
C12_TableImmutable ==
    /\ DOMAIN g_slave_tx_buffer = 0..(SLAVE_NB_OF_COMMANDS * SLAVE_PACKET_LENGTH - 1)
    /\ \A i \in 0..(SLAVE_NB_OF_COMMANDS - 1) :
          RowOf(g_slave_tx_buffer, i) = DocumentedRow(i)

C12_Witness ==
    /\ C12_TableImmutable
    /\ rec = "recovered"
    /\ frame_no = 0
    /\ "frame" \in active
    /\ lost[SPI0] /\ lost[SPI1]

\* ------------------------------------------------------------------------
\* C13 as stated: any two frames carrying the same command byte c deliver
\* identical 8-byte replies, whatever happened between them.  Taken for
\* c = 0 and an earlier frame that delivered row 0: every later completed
\* frame with command 0 delivers row 0 as well.
C13_Original ==
    (FrameDone /\ Command = 0 /\ seen0) => Reply = DocumentedRow(0)

\* ------------------------------------------------------------------------
\* C14: every pass of the loop asserts slave select, makes one blocking
\* block transfer, de-asserts slave select and advances cmd_idx, in this
\* order; so a transfer is in flight only while slave select is asserted,
\* and cmd_idx and the command byte do not change while one is in flight.
LoopOrder ==
    {<<"select", "transfer">>, <<"transfer", "xfer">>, <<"xfer", "deselect">>,
     <<"deselect", "advance">>, <<"advance", "select">>}

LoopStates == {"select", "transfer", "xfer", "deselect", "advance"}

C14_LoopState ==
    /\ pc \in {"transfer", "xfer", "deselect"} => slave_select
    /\ pc = "advance" => ~slave_select

C14_LoopStep ==
    /\ (pc \in LoopStates /\ pc' # pc) => <<pc, pc'>> \in LoopOrder
    /\ (~slave_select /\ slave_select') => (pc \in {"select0", "select"} /\ pc' # pc)
    /\ (slave_select /\ ~slave_select') => (pc = "deselect" /\ pc' = "advance")
    /\ frame_no' # frame_no => (pc = "transfer" /\ pc' = "xfer")
    /\ pos' # pos => (pc' = "xfer" /\ slave_select)
    /\ pc = "xfer" => (cmd_idx' = cmd_idx /\ Command' = Command)

C14_LoopOrder == [](C14_LoopState) /\ [][C14_LoopStep]_vars

C14_Witness ==
    /\ pc = "xfer"
    /\ slave_select
    /\ frame_no = 2
    /\ pos = FrameLen
    /\ cmd_idx = 1 /\ Command = 1

\* ------------------------------------------------------------------------
\* C15: the loop never retries and never stops: whatever reply was captured
\* and whether or not a core was recovered from an overflow during the
\* frame, the pass ends by advancing the command by 1 modulo 4, each frame
\* started carries the command after the one of the frame before it, and
\* the loop is never left.
C15_NoRetryState ==
    /\ (pc = "advance" /\ Foreground) => ENABLED Advance
    /\ pc \in {"transfer", "xfer", "deselect"} => Command = cmd_idx

C15_NoRetryStep ==
    /\ (pc = "advance" /\ pc' # pc)
          => /\ pc' = "select"
             /\ Command' = (Command + 1) % SLAVE_NB_OF_COMMANDS
             /\ UNCHANGED <<g_master_rx_buffer, lost, late>>
    /\ (pc = "transfer" /\ pc' = "xfer") => Command = frame_no
    /\ pc \in LoopStates => pc' \in LoopStates
    /\ pc = "deselect" => pc' \in {"deselect", "advance"}

C15_NoRetry == [](C15_NoRetryState) /\ [][C15_NoRetryStep]_vars

C15_Witness ==
    /\ pc = "select"
    /\ lost[SPI0]
    /\ rec = "recovered"
    /\ Command = 2
    /\ Reply = Undefined(g_master_rx_buffer)

\* ------------------------------------------------------------------------
\* C17: MSS_SPI_transfer_block has no timeout and cannot be cancelled: while
\* the frame is unfinished the loop stays in the call, cmd_idx and the
\* command byte keep their values and no further frame is started; a call of
\* the overflow handler neither ends the call nor moves the frame.  So a
\* transfer that never completes blocks the loop for ever.
Blocked == pc = "xfer" /\ pos < FrameLen

C17_BlockedStep ==
    /\ Blocked => /\ pc' = "xfer"
                  /\ UNCHANGED <<cmd_idx, g_master_tx_buffer, frame_no>>
                  /\ pos' \in {pos, pos + 1}
    /\ \A c \in Cores :
          (pc = "xfer" /\ OverflowStep(c)) => (pc' = "xfer" /\ pos' = pos)
    /\ (pc = "xfer" /\ pc' # "xfer") => (pos = FrameLen /\ active = {})

C17_NoTimeout ==
    /\ [][C17_BlockedStep]_vars
    /\ \A i \in 0..(SLAVE_NB_OF_COMMANDS - 1) :
          []((Blocked /\ cmd_idx = i /\ [](pos < FrameLen))
                => [](pc = "xfer" /\ cmd_idx = i /\ Command = i))

C17_Witness ==
    /\ Blocked
    /\ pos > COMMAND_BYTE_SIZE
    /\ rec = "recovered"
    /\ active = {}
    /\ lost[SPI0]
    /\ cmd_idx = 3

\* ------------------------------------------------------------------------
\* C18: a frame whose reply is staged only after the turnaround bytes are
\* exhausted goes on like any other: its bytes keep being clocked, the
\* transfer returns, the loop advances cmd_idx and enters no error state.
\* The first reply byte captured then comes from what was staged before
\* (a byte of an earlier row) or is undefined (always so in the first
\* frame), and every captured byte is a table byte of its column or
\* undefined.
TableOrUndefined(j, b) ==
    \/ b = junk
    \/ \E r \in 0..(SLAVE_NB_OF_COMMANDS - 1) : b = DocumentedRow(r)[j]

C18_MissState ==
    late => /\ pc \in LoopStates
            /\ Blocked => ENABLED ClockByte
            /\ (pc = "xfer" /\ pos = FrameLen /\ Foreground) => ENABLED TransferReturn
            /\ (pc = "advance" /\ Foreground) => ENABLED Advance
            /\ FrameDone => \A j \in DOMAIN Reply : TableOrUndefined(j, Reply[j])

\* A reply byte is clocked while the command handler has not yet returned.
MissStep == pc = "xfer" /\ pos' = pos + 1 /\ pos >= ReplyStart /\ cmd_irq # "done"

C18_MissStep ==
    /\ (MissStep /\ ~lost'[SPI0])
          => /\ late'
             /\ Reply'[pos - ReplyStart] =
                   IF resp.ptr = NoRow
                   THEN junk
                   ELSE g_slave_tx_buffer[resp.ptr + (pos - ReplyStart)]
    /\ late => /\ pc' # pc => <<pc, pc'>> \in LoopOrder
               /\ (pc = "advance" /\ pc' # pc)
                     => cmd_idx' = (cmd_idx + 1) % SLAVE_NB_OF_COMMANDS

C18_SilentDeadlineMiss == [](C18_MissState) /\ [][C18_MissStep]_vars

C18_Witness ==
    /\ pc = "select"
    /\ late /\ NoLoss
    /\ cmd_idx = 1
    /\ Reply[0] = DocumentedRow(3)[0]
    /\ \A j \in 1..(SLAVE_PACKET_LENGTH - 1) : Reply[j] = DocumentedRow(0)[j]

\* ------------------------------------------------------------------------
\* C19: g_master_tx_buffer has 5 bytes, as many as each transfer sends as
\* command bytes; byte 0 equals cmd_idx whenever a transfer starts or is in
\* flight, bytes 1..4 are 0x01, 0x02, 0x03, 0xAA in every reachable state,
\* only byte 0 is ever written, and a responder that misses nothing
\* receives exactly these 5 bytes at the head of the frame.
TxFrame(i) == [k \in 0..4 |-> CASE k = 0 -> i [] k = 1 -> 1 [] k = 2 -> 2
                                [] k = 3 -> 3 [] OTHER -> 170]

C19_TxState ==
    /\ DOMAIN g_master_tx_buffer = 0..(COMMAND_BYTE_SIZE + NB_OF_TURNAROUND_BYTES - 1)
    /\ \A k \in 1..4 : g_master_tx_buffer[k] = TxFrame(0)[k]
    /\ pc \in {"select", "transfer", "xfer", "deselect"}
          => g_master_tx_buffer = TxFrame(cmd_idx)
    /\ (pc = "xfer" /\ pos >= ReplyStart /\ ~lost[SPI1])
          => \A k \in 0..4 : g_slave_rx_buffer[k] = TxFrame(cmd_idx)[k]

C19_TxStep ==
    g_master_tx_buffer' # g_master_tx_buffer
        => /\ pc = "advance"
           /\ \A k \in 1..4 : g_master_tx_buffer'[k] = g_master_tx_buffer[k]

C19_TxBuffer == [](C19_TxState) /\ [][C19_TxStep]_vars

C19_Witness ==
    /\ pc = "xfer"
    /\ pos = ReplyStart
    /\ ~lost[SPI1]
    /\ cmd_idx = 2
    /\ \A k \in 0..4 : g_slave_rx_buffer[k] = TxFrame(2)[k]

\* ------------------------------------------------------------------------
\* C20 as stated: g_master_rx_buffer holds at least 1 + 4 + 8 = 13 bytes,
\* and each transfer receives 13 bytes into it within its bounds.
C20_Original ==
    /\ Cardinality(DOMAIN g_master_rx_buffer)
          >= COMMAND_BYTE_SIZE + NB_OF_TURNAROUND_BYTES + SLAVE_PACKET_LENGTH
    /\ FrameDone => pos <= Cardinality(DOMAIN g_master_rx_buffer)

\* C20 as amended: g_master_rx_buffer holds SLAVE_PACKET_LENGTH = 8 bytes;
\* each transfer exchanges 1 + 4 + 8 = 13 bytes, of which the controller
\* drops the first 5 and stores the last 8, each within the bounds of the
\* buffer; the responder's receive buffer holds all 13.
C20_RxState ==
    /\ DOMAIN g_master_rx_buffer = 0..(SLAVE_PACKET_LENGTH - 1)
    /\ DOMAIN g_slave_rx_buffer
          = 0..(COMMAND_BYTE_SIZE + NB_OF_TURNAROUND_BYTES + SLAVE_PACKET_LENGTH - 1)
    /\ pos \in 0..(COMMAND_BYTE_SIZE + NB_OF_TURNAROUND_BYTES + SLAVE_PACKET_LENGTH)
    /\ FrameDone
          => pos = COMMAND_BYTE_SIZE + NB_OF_TURNAROUND_BYTES + SLAVE_PACKET_LENGTH

C20_RxStep ==
    pos' = pos + 1
        => /\ pos \in DOMAIN g_slave_rx_buffer
           /\ pos >= ReplyStart => pos - ReplyStart \in DOMAIN g_master_rx_buffer
           /\ (pos < ReplyStart /\ ~lost'[SPI0])
                 => g_master_rx_buffer' = g_master_rx_buffer
           /\ (pos >= ReplyStart /\ ~lost'[SPI0])
                 => \A k \in DOMAIN g_master_rx_buffer :
                       k # pos - ReplyStart => g_master_rx_buffer'[k] = g_master_rx_buffer[k]

C20_RxBuffer == [](C20_RxState) /\ [][C20_RxStep]_vars

C20_Witness ==
    /\ FrameDone /\ InTime /\ NoLoss
    /\ pos = 13
    /\ Cardinality(DOMAIN g_master_rx_buffer) = 8
    /\ Command = 1
    /\ Reply = DocumentedRow(1)
    /\ g_slave_rx_buffer[12] = 0

\* ------------------------------------------------------------------------
\* C16: under fair scheduling, in which every started block transfer
\* completes, the loop starts frames for ever and each command 0..3 is
\* issued infinitely often, also in behaviours with infinitely many
\* overflow recoveries.
FrameIssued(i) == pc = "xfer" /\ pos = 0 /\ Command = i

C16_EveryCommandForever ==
    \A i \in 0..(SLAVE_NB_OF_COMMANDS - 1) : []<>FrameIssued(i)

C16_Witness ==
    /\ FrameIssued(3)
    /\ rec = "next"
    /\ seen0
    /\ frame_no = 0

\* ------------------------------------------------------------------------
\* C21: the reply staged by the command handler depends on the first byte
\* received only: whatever turnaround bytes the frame carries and whatever
\* receive size the driver reports, the handler stages what it would stage
\* for any other turnaround bytes and any other size with the same first
\* byte, namely the row that byte selects.
WithFiller(buf, f) ==
    [k \in DOMAIN buf |-> IF k \in DOMAIN f THEN f[k] ELSE buf[k]]

C21_FillerIgnoredStep ==
    DispatchStep
        => /\ \A f \in FillerSamples, sz \in 1..SLAVE_RX_SIZE :
                 spi1_slave_cmd_handler(WithFiller(g_slave_rx_buffer, f), sz) = resp'
           /\ resp'.ptr = AddrOf(IF Command < SLAVE_NB_OF_COMMANDS THEN Command ELSE 0, 0)

C21_FillerIgnored == [][C21_FillerIgnoredStep]_vars

C21_Witness ==
    /\ cmd_irq = "done"
    /\ pc = "xfer"
    /\ Command = 2
    /\ \A k \in 1..NB_OF_TURNAROUND_BYTES : g_slave_rx_buffer[k] = 255
    /\ resp = [ptr |-> AddrOf(2, 0), size |-> SLAVE_PACKET_LENGTH]

\* ------------------------------------------------------------------------
\* C22: a call of spi1_block_rx_handler, whatever the receive buffer holds
\* and whatever size is reported, changes no variable of the program: the
\* staged reply, the table, cmd_idx, the four buffers, the state of both
\* cores and all registrations stay as they were.
FrameCallbackStep == "frame" \in active /\ "frame" \notin active'

C22_FrameCallbackNoOpStep ==
    FrameCallbackStep
        => /\ UNCHANGED <<resp, g_slave_tx_buffer, cmd_idx>>
           /\ UNCHANGED <<g_master_tx_buffer, g_master_rx_buffer, g_slave_rx_buffer>>
           /\ UNCHANGED <<clk_rst, spi_mode, cfgVars>>
           /\ UNCHANGED <<pc, pos, slave_select>>

C22_FrameCallbackNoOp == [][C22_FrameCallbackNoOpStep]_vars

C22_Witness ==
    /\ pc = "advance"
    /\ active = {}
    /\ cmd_irq = "idle"
    /\ ~ssend_irq
    /\ g_slave_rx_buffer[0] = 77
    /\ g_slave_rx_buffer[NB_OF_TURNAROUND_BYTES] = 0
    /\ resp = [ptr |-> AddrOf(0, 0), size |-> SLAVE_PACKET_LENGTH]

\* ------------------------------------------------------------------------
\* C23 as stated: 0 <= cmd_idx < SLAVE_NB_OF_COMMANDS in every reachable
\* state, the controller never sends an out-of-range command, and the
\* command handler is never called with an out-of-range first byte, so
\* that its fallback branch is never taken.
FallbackTaken == "cmd" \in active /\ g_slave_rx_buffer[0] >= SLAVE_NB_OF_COMMANDS

Staged == resp.ptr # NoRow

C24_WholeRow ==
    Staged
        => /\ \E r \in 0..(SLAVE_NB_OF_COMMANDS - 1) : resp.ptr = AddrOf(r, 0)
           /\ resp.size = SLAVE_PACKET_LENGTH
           /\ resp.ptr >= 0
           /\ resp.ptr + resp.size <= SLAVE_NB_OF_COMMANDS * SLAVE_PACKET_LENGTH
           /\ resp.ptr \div SLAVE_PACKET_LENGTH
                 = (resp.ptr + resp.size - 1) \div SLAVE_PACKET_LENGTH
           /\ \A j \in 0..(resp.size - 1) : resp.ptr + j \in DOMAIN g_slave_tx_buffer

C24_Witness ==
    /\ Staged
    /\ Command = 3
    /\ resp = [ptr |-> AddrOf(3, 0), size |-> SLAVE_PACKET_LENGTH]
    /\ StagedBytes = DocumentedRow(3)
    /\ g_slave_rx_buffer[1] = 3

\* ------------------------------------------------------------------------
\* C25: no frame is started before the initialisation is complete: when
\* u54_1 is in its loop both cores are out of reset and configured (SPI0
\* master, SPI1 slave), interrupts are enabled, the block buffers of SPI1,
\* its frame-complete handler and its command handler with command size 1
\* are registered, and the overflow handler is registered for both cores;
\* no byte is exchanged and no frame counted before that, and no handler is
\* called before it has been registered.
Initialised ==
    /\ \A c \in Cores : clk_rst[c] # "Reset"
    /\ irq_enabled
    /\ plic_priority = [c \in Cores |-> SPI_PLIC_PRIORITY]
    /\ spi_mode = [c \in Cores |-> IF c = SPI0 THEN "master" ELSE "slave"]
    /\ \A c \in Cores : overflow_handler[c]
    /\ slave_tx = [ptr |-> AddrOf(0, 0), size |-> COMMAND_BYTE_SIZE + NB_OF_TURNAROUND_BYTES]
    /\ block_rx_handler
    /\ cmd_handler
    /\ cmd_size = COMMAND_BYTE_SIZE

C25_InitState ==
    /\ (pc \in LoopStates \/ pc = "select0") => Initialised
    /\ (pos # 0 \/ frame_no # 0 \/ slave_select) => Initialised
    /\ "cmd" \in active => cmd_handler
    /\ cmd_irq # "idle" => cmd_handler
    /\ "frame" \in active => block_rx_handler
    /\ ssend_irq => block_rx_handler
    /\ \A c \in Cores : OvfOf(c) \in active => overflow_handler[c]

C25_InitStep ==
    /\ (pc \notin LoopStates /\ pc' # pc)
          => <<pc, pc'>> \in {<<"reset", "plic">>, <<"plic", "cfg_master">>,
                              <<"cfg_master", "cfg_slave">>, <<"cfg_slave", "set_buffers">>,
                              <<"set_buffers", "set_cmd">>, <<"set_cmd", "select0">>,
                              <<"select0", "select">>}
    /\ pc \in LoopStates => UNCHANGED <<spi_mode, overflow_handler, slave_tx,
                                        block_rx_handler, cmd_handler, cmd_size>>

C25_InitBeforeTraffic == [](C25_InitState) /\ [][C25_InitStep]_vars

C25_Witness ==
    /\ Initialised
    /\ pc = "xfer"
    /\ pos = COMMAND_BYTE_SIZE
    /\ cmd_irq = "pending"
    /\ rec = "next"
    /\ ~seen0
    /\ resp.ptr = NoRow

\* ------------------------------------------------------------------------
\* C26: for every argument value 0..255 the overflow handler re-enables
\* exactly one core: SPI0 if and only if the argument is 0, SPI1 for every
\* other argument; the other core is left as it was, so the handler never
\* re-enables both cores and never none.
ReEnabled(before, after) == {c \in Cores : before[c] # "Ready" /\ after[c] = "Ready"}

Touched(before, after) == {c \in Cores : before[c] # after[c]}

C26_OneCoreState ==
    \A x \in Byte :
        LET after == mss_spi_overflow_handler(clk_rst, x)
            target == IF x = 0 THEN SPI0 ELSE SPI1
        IN /\ after[target] = "Ready"
           /\ Touched(clk_rst, after) \subseteq {target}
           /\ ReEnabled(clk_rst, after) \subseteq {target}
           /\ clk_rst[target] # "Ready" => ReEnabled(clk_rst, after) = {target}

C26_OneCoreStep ==
    ovf_arg' # ovf_arg \/ (\E x \in Byte : clk_rst' = mss_spi_overflow_handler(clk_rst, x)
                                          /\ ovf_arg' = x /\ clk_rst' # clk_rst)
        => LET target == IF ovf_arg' = 0 THEN SPI0 ELSE SPI1
           IN /\ clk_rst'[target] = "Ready"
              /\ \A c \in Cores \ {target} : clk_rst'[c] = clk_rst[c]

C26_OneCore == [](C26_OneCoreState) /\ [][C26_OneCoreStep]_vars

C26_Witness ==
    /\ ovf_arg = 255
    /\ clk_rst[SPI1] = "Ready"
    /\ clk_rst[SPI0] = "Recovering"

\* ========================================================================
\* CAN examples (BasicCAN and FullCAN): text typed on the UART is sent as
\* CAN messages of up to 8 bytes; received messages are shown on the UART.
\* The application code is modelled from the source; the MSS CAN driver,
\* the CAN controller and the UART are modelled from their use in it.
\* ========================================================================
CanModes == {"BasicCAN", "FullCAN"}

\* Largest number of characters get_data_frm_uart takes.
MaxLine == TEMP_SIZE

\* uint8_t arithmetic: x << 4 and x | y.
Shl4(x) == (x * 16) % 256

RECURSIVE BitOr(_, _)
BitOr(a, b) ==
    IF a = 0 THEN b
    ELSE IF b = 0 THEN a
    ELSE (IF a % 2 = 1 \/ b % 2 = 1 THEN 1 ELSE 0) + 2 * BitOr(a \div 2, b \div 2)

\* Characters typed: upper-case hex digits in order, lower-case hex digits
\* in reverse order, and a mix with characters that are not hex digits.
HexUpper(i) == IF i % 16 < 10 THEN 48 + (i % 16) ELSE 65 + (i % 16) - 10
HexLower(i) == IF 15 - (i % 16) < 10 THEN 48 + 15 - (i % 16) ELSE 97 + 5 - (i % 16)
Mixed(i) == CASE i % 3 = 0 -> 122 [] i % 3 = 1 -> 32 [] OTHER -> 55

TextSamples(n) ==
    { [i \in 1..n |-> HexUpper(i - 1)],
      [i \in 1..n |-> HexLower(i - 1)],
      [i \in 1..n |-> Mixed(i - 1)] }

\* One character converted by ascii_to_hex.
AsciiToHexChar(c) ==
    IF c <= 57 /\ c >= 48 THEN c - 48
    ELSE IF c <= 90 /\ c >= 65 THEN (10 + c - 65) % 256
    ELSE IF c <= 122 /\ c >= 97 THEN (10 + (c - 97)) % 256
    ELSE c

ascii_to_hex(in_buffer, byte_length) ==
    [inc \in DOMAIN in_buffer |->
        IF inc < byte_length THEN AsciiToHexChar(in_buffer[inc]) ELSE in_buffer[inc]]

\* Faulty variant: the bytes are packed in ascending order.
PackIndex_Linear(k) == k

\* Index of DATA that byte k of a chunk is packed into.
PackIndex(k) == IF k < 4 THEN 3 - k ELSE 11 - k

\* Index of DATA that byte k of a received message is read from.
UnpackIndex(k) == IF k < 4 THEN 3 - k ELSE 11 - k

\* The packing loop: DATA after the first size bytes of buf, from offset
\* base on, have been stored into it.
PackData(data, buf, base, size) ==
    [d \in DataIndex |->
        IF \E k \in 0..(size - 1) : PackIndex(k) = d
        THEN buf[base + (CHOOSE k \in 0..(size - 1) : PackIndex(k) = d)]
        ELSE data[d]]

\* The unpacking loop of check_rx_buffer.
UnpackData(out, rx) ==
    [k \in DOMAIN out |-> IF k < rx.DLC THEN rx.DATA[UnpackIndex(k)] ELSE out[k]]

\* rx_bytes = get_data_frm_uart();
GetDataFrmUart ==
    /\ can_pc = "input"
    /\ g_uart_to_can' = [k \in 0..(UART_TO_CAN_SIZE - 1) |-> 0]
    /\ g_temp' = [k \in 0..(TEMP_SIZE - 1) |-> IF k < Len(line) THEN line[k + 1] ELSE g_temp[k]]
    /\ rx_bytes' = Len(line)
    /\ can_pc' = "convert"
    /\ UNCHANGED <<can_mode, line, loop_count, no_of_msgs, count, msg_len, chunk_size,
                   error_flag, pmsg, tx_busy, sent, tried, report, recvVars, irqVars>>
    /\ UNCHANGED <<spiVars, ovf_arg>>

\* ascii_to_hex(g_temp, rx_bytes);
AsciiToHex ==
    /\ can_pc = "convert"
    /\ g_temp' = ascii_to_hex(g_temp, rx_bytes)
    /\ can_pc' = "form"
    /\ UNCHANGED <<can_mode, line, rx_bytes, g_uart_to_can, loop_count, no_of_msgs, count,
                   msg_len, chunk_size, error_flag, pmsg, tx_busy, sent, tried, report,
                   recvVars, irqVars>>
    /\ UNCHANGED <<spiVars, ovf_arg>>

\* Two converted characters make one byte.
FormBytes ==
    /\ can_pc = "form"
    /\ g_uart_to_can' =
          [k \in 0..(UART_TO_CAN_SIZE - 1) |->
              IF k < rx_bytes \div 2
              THEN BitOr(Shl4(g_temp[k * 2]), g_temp[(k * 2) + 1])
              ELSE g_uart_to_can[k]]
    /\ loop_count' = rx_bytes \div 2
    /\ can_pc' = "plan"
    /\ UNCHANGED <<can_mode, line, rx_bytes, g_temp, no_of_msgs, count, msg_len, chunk_size,
                   error_flag, pmsg, tx_busy, sent, tried, report, recvVars, irqVars>>
    /\ UNCHANGED <<spiVars, ovf_arg>>

\* Identify the number of messages to transmit based on rx_bytes.
NoOfMsgs(n, formed) ==
    IF 0 = formed THEN 1
    ELSE (n \div 16) + (IF (n % 16) # 0 THEN 1 ELSE 0)

CountMsgs ==
    /\ can_pc = "plan"
    /\ no_of_msgs' = NoOfMsgs(rx_bytes, loop_count)
    /\ count' = 0
    /\ msg_len' = loop_count
    /\ error_flag' = 0
    /\ can_pc' = "loop"
    /\ UNCHANGED <<can_mode, line, rx_bytes, g_temp, g_uart_to_can, loop_count, chunk_size,
                   pmsg, tx_busy, sent, tried, report, recvVars, irqVars>>
    /\ UNCHANGED <<spiVars, ovf_arg>>

\* while ((no_of_msgs != 0u) && (0u == error_flag)): taken.
LoopEnter ==
    /\ can_pc = "loop"
    /\ no_of_msgs # 0 /\ 0 = error_flag
    /\ can_pc' = "pack"
    /\ UNCHANGED <<can_mode, line, rx_bytes, g_temp, g_uart_to_can, loop_count, no_of_msgs,
                   count, msg_len, chunk_size, error_flag, pmsg, tx_busy, sent, tried,
                   report, recvVars, irqVars>>
    /\ UNCHANGED <<spiVars, ovf_arg>>

\* while ((no_of_msgs != 0u) && (0u == error_flag)): left.
LoopExit ==
    /\ can_pc = "loop"
    /\ ~(no_of_msgs # 0 /\ 0 = error_flag)
    /\ can_pc' = "report"
    /\ UNCHANGED <<can_mode, line, rx_bytes, g_temp, g_uart_to_can, loop_count, no_of_msgs,
                   count, msg_len, chunk_size, error_flag, pmsg, tx_busy, sent, tried,
                   report, recvVars, irqVars>>
    /\ UNCHANGED <<spiVars, ovf_arg>>

\* Pack up to 8 bytes into this packet.
PackChunk ==
    /\ can_pc = "pack"
    /\ LET size == IF msg_len >= 8 THEN 8 ELSE msg_len
       IN /\ chunk_size' = size
          /\ loop_count' = size
          /\ pmsg' = [DATA |-> PackData(pmsg.DATA, g_uart_to_can, count * 8, size),
                      DLC |-> size]
    /\ can_pc' = "send"
    /\ UNCHANGED <<can_mode, line, rx_bytes, g_temp, g_uart_to_can, no_of_msgs, count,
                   msg_len, error_flag, tx_busy, sent, tried, report, recvVars, irqVars>>
    /\ UNCHANGED <<spiVars, ovf_arg>>

\* ret_status = MSS_CAN_send_message(..) or MSS_CAN_send_message_n(.., 0u, ..),
\* and the test of ret_status; valid: the driver returned CAN_VALID_MSG.
SendMessage(valid) ==
    /\ can_pc = "send"
    /\ tried' = tried + 1
    /\ IF ~valid
       THEN /\ error_flag' = 1
            /\ can_pc' = "loop"
            /\ UNCHANGED <<sent, tx_busy, no_of_msgs, msg_len, count>>
       ELSE /\ sent' = Append(sent, pmsg)
            /\ UNCHANGED error_flag
            /\ IF can_mode = "FullCAN"
               THEN /\ tx_busy' = TRUE
                    /\ can_pc' = "wait"
                    /\ UNCHANGED <<no_of_msgs, msg_len, count>>
               ELSE /\ no_of_msgs' = no_of_msgs - 1
                    /\ msg_len' = msg_len - chunk_size
                    /\ count' = (count + 1) % 256
                    /\ can_pc' = "loop"
                    /\ UNCHANGED tx_busy
    /\ UNCHANGED <<can_mode, line, rx_bytes, g_temp, g_uart_to_can, loop_count, chunk_size,
                   pmsg, report, recvVars, irqVars>>
    /\ UNCHANGED <<spiVars, ovf_arg>>

\* The CAN controller has transmitted the message of tx buffer 0.
TxDone ==
    /\ tx_busy
    /\ tx_busy' = FALSE
    /\ UNCHANGED <<can_mode, can_pc, line, rx_bytes, g_temp, g_uart_to_can, loop_count,
                   no_of_msgs, count, msg_len, chunk_size, error_flag, pmsg, sent, tried,
                   report, recvVars, irqVars>>
    /\ UNCHANGED <<spiVars, ovf_arg>>

\* FullCAN: the wait for the packet to be sent is over; while the transmit
\* request is pending the wait reads the status again and nothing changes.
WaitTx ==
    /\ can_pc = "wait"
    /\ ~tx_busy
    /\ no_of_msgs' = no_of_msgs - 1
    /\ msg_len' = msg_len - chunk_size
    /\ count' = (count + 1) % 256
    /\ can_pc' = "loop"
    /\ UNCHANGED <<can_mode, line, rx_bytes, g_temp, g_uart_to_can, loop_count, chunk_size,
                   error_flag, pmsg, tx_busy, sent, tried, report, recvVars, irqVars>>
    /\ UNCHANGED <<spiVars, ovf_arg>>

\* The status text written after the loop.
StatusText(n, err) ==
    IF 0 = n THEN "Unable to send data via CAN Bus"
    ELSE IF 0 = err THEN "It should be same as the data transmitted from UART terminal"
    ELSE "Some transmission error(s) were detected."

Report ==
    /\ can_pc = "report"
    /\ report' = StatusText(count, error_flag)
    /\ can_pc' = "key"
    /\ UNCHANGED <<can_mode, line, rx_bytes, g_temp, g_uart_to_can, loop_count, no_of_msgs,
                   count, msg_len, chunk_size, error_flag, pmsg, tx_busy, sent, tried,
                   recvVars, irqVars>>
    /\ UNCHANGED <<spiVars, ovf_arg>>

\* A key is pressed and the same text is typed again.
Continue ==
    /\ can_pc = "key"
    /\ can_pc' = "input"
    /\ sent' = <<>>
    /\ tried' = 0
    /\ report' = "none"
    /\ UNCHANGED <<can_mode, line, rx_bytes, g_temp, g_uart_to_can, loop_count, no_of_msgs,
                   count, msg_len, chunk_size, error_flag, pmsg, tx_busy, recvVars, irqVars>>
    /\ UNCHANGED <<spiVars, ovf_arg>>

InitCanSend ==
    /\ PowerOn(MasterTxInit)
    /\ junk = 0
    /\ NoOverflowCall
    /\ can_mode \in CanModes
    /\ can_pc = "input"
    /\ CanStatics
    /\ \E n \in 0..MaxLine : line \in TextSamples(n)

\* The steps of the CAN example's u54_1.
CanProgram ==
    \/ GetDataFrmUart
    \/ AsciiToHex
    \/ FormBytes
    \/ CountMsgs
    \/ LoopEnter
    \/ LoopExit
    \/ PackChunk
    \/ \E valid \in BOOLEAN : SendMessage(valid)
    \/ WaitTx
    \/ Report
    \/ Continue

NextCanSend ==
    \/ GetDataFrmUart
    \/ AsciiToHex
    \/ FormBytes
    \/ CountMsgs
    \/ LoopEnter
    \/ LoopExit
    \/ PackChunk
    \/ \E valid \in BOOLEAN : SendMessage(valid)
    \/ WaitTx
    \/ TxDone
    \/ Report
    \/ Continue

SpecCanSend == InitCanSend /\ [][NextCanSend]_vars

\* The hart runs: a step of u54_1 that can be taken is taken.  Nothing makes
\* the CAN controller finish a transmission.
FairSpecCanSend == SpecCanSend /\ WF_vars(CanProgram)

\* ------------------------------------------------------------------------
\* Packing and unpacking alone: a chunk is drawn, packed as the send loop
\* packs it, and the message is given to check_rx_buffer as received.
\* ------------------------------------------------------------------------
\* Contents of g_uart_to_can tried: a ramp, a descending ramp, one value.
BufferSamples ==
    { [k \in 0..(UART_TO_CAN_SIZE - 1) |-> k + 1],
      [k \in 0..(UART_TO_CAN_SIZE - 1) |-> 255 - k],
      [k \in 0..(UART_TO_CAN_SIZE - 1) |-> 90] }

\* What the message objects and g_can_to_uart hold from earlier messages.
StaleSamples == {0, 238}

InitCanPack ==
    /\ PowerOn(MasterTxInit)
    /\ junk = 0
    /\ NoOverflowCall
    /\ can_mode \in CanModes
    /\ can_pc = "pack"
    /\ line = <<>>
    /\ rx_bytes = 0
    /\ g_temp = [k \in 0..(TEMP_SIZE - 1) |-> 0]
    /\ g_uart_to_can \in BufferSamples
    /\ loop_count = 0
    /\ \E c \in 0..3, len \in 0..9 :
          /\ (c * 8) + len <= UART_TO_CAN_SIZE
          /\ count = c
          /\ msg_len = len
          /\ no_of_msgs = 1
    /\ chunk_size = 0
    /\ error_flag = 0
    /\ \E v \in StaleSamples :
          /\ pmsg = [DATA |-> [k \in DataIndex |-> v], DLC |-> 0]
          /\ rx_buf = [DATA |-> [k \in DataIndex |-> v], DLC |-> 0]
          /\ g_can_to_uart = [k \in 0..(CAN_TO_UART_SIZE - 1) |-> v]
    /\ tx_busy = FALSE
    /\ sent = <<>>
    /\ tried = 0
    /\ report = "none"
    /\ int_status = {}
    /\ read_irq_state = {}
    /\ irq_cleared = {}
    /\ irq_branch = "none"

\* check_rx_buffer when MSS_CAN_get_message delivers message m.
check_rx_buffer(m) ==
    /\ rx_buf' = m
    /\ g_can_to_uart' = UnpackData(g_can_to_uart, m)
    /\ UNCHANGED <<can_mode, line, rx_bytes, g_temp, g_uart_to_can, loop_count, no_of_msgs,
                   count, msg_len, chunk_size, error_flag, pmsg, tx_busy, sent, tried,
                   report, irqVars>>
    /\ UNCHANGED <<spiVars, ovf_arg>>

\* The message just packed comes back from the bus.
Loopback ==
    /\ can_pc = "send"
    /\ can_pc' = "checked"
    /\ check_rx_buffer(pmsg)

NextCanPack ==
    \/ PackChunk
    \/ Loopback

SpecCanPack == InitCanPack /\ [][NextCanPack]_vars

\* ------------------------------------------------------------------------
\* The CAN interrupt service routine
\* ------------------------------------------------------------------------
\* A status word and a flag as sets of bits: x | flag, and the test against 0.
IrqTest(state, flag) == (state \cup {flag}) # {}

\* The first branch of the if / else if chain whose test succeeds; 0 if none.
IrqBranch(state) ==
    LET hits == {i \in 1..Len(IrqFlags) : IrqTest(state, IrqFlags[i])}
    IN IF hits = {} THEN 0 ELSE CHOOSE i \in hits : \A j \in hits : i <= j

InitCanIrq ==
    /\ PowerOn(MasterTxInit)
    /\ junk = 0
    /\ NoOverflowCall
    /\ can_mode \in CanModes
    /\ can_pc = "input"
    /\ line = <<>>
    /\ CanStatics

\* The CAN controller sets a status flag; all of them are enabled.
CanEvent(f) ==
    /\ f \notin int_status
    /\ int_status' = int_status \cup {f}
    /\ read_irq_state' = {}
    /\ irq_cleared' = {}
    /\ irq_branch' = "none"
    /\ UNCHANGED <<can_mode, sendVars, recvVars>>
    /\ UNCHANGED <<spiVars, ovf_arg>>

CAN_IRQHandler ==
    /\ int_status # {}
    /\ read_irq_state' = int_status
    /\ LET b == IrqBranch(int_status)
       IN IF b # 0
          THEN /\ int_status' = int_status \ {IrqFlags[b]}
               /\ irq_cleared' = {IrqFlags[b]}
               /\ irq_branch' = IrqFlags[b]
          ELSE /\ irq_branch' = "No Error"
               /\ irq_cleared' = {}
               /\ UNCHANGED int_status
    /\ UNCHANGED <<can_mode, sendVars, recvVars>>
    /\ UNCHANGED <<spiVars, ovf_arg>>

NextCanIrq ==
    \/ \E i \in 1..Len(IrqFlags) : CanEvent(IrqFlags[i])
    \/ CAN_IRQHandler

SpecCanIrq == InitCanIrq /\ [][NextCanIrq]_vars

\* ------------------------------------------------------------------------
\* C27: CAN_IRQHandler clears an interrupt status flag only when that flag
\* is set in the status word it read, and when no status bit is set it takes
\* the final "No Error" branch and clears nothing.
C27_Original ==
    /\ irq_cleared \subseteq read_irq_state
    /\ (irq_branch # "none" /\ read_irq_state = {})
          => (irq_branch = "No Error" /\ irq_cleared = {})

\* ------------------------------------------------------------------------
\* C28: CAN transmit segmentation: for every entered character count
\* rx_bytes in 0..64 with all sends succeeding, the messages sent carry
\* floor(rx_bytes/2) data bytes in total, each with DLC <= 8, in input
\* order, and a message with DLC 0 is sent only when no data byte was formed.
\* The data bytes of a message, in the order check_rx_buffer reads them.
Payload(m) == [k \in 1..m.DLC |-> m.DATA[UnpackIndex(k - 1)]]

RECURSIVE SentBytes(_)
SentBytes(msgs) ==
    IF msgs = <<>> THEN <<>>
    ELSE SentBytes(SubSeq(msgs, 1, Len(msgs) - 1)) \o Payload(msgs[Len(msgs)])

\* The bytes the typed characters stand for, two characters a byte.
TypedBytes ==
    [k \in 1..(Len(line) \div 2) |->
        BitOr(Shl4(AsciiToHexChar(line[(2 * k) - 1])), AsciiToHexChar(line[2 * k]))]

AllSent == can_pc = "key" /\ error_flag = 0

C28_Original ==
    AllSent
        => /\ rx_bytes = Len(line)
           /\ Len(SentBytes(sent)) = rx_bytes \div 2
           /\ SentBytes(sent) = TypedBytes
           /\ \A i \in 1..Len(sent) : sent[i].DLC <= 8
           /\ \A i \in 1..Len(sent) : sent[i].DLC = 0 => rx_bytes \div 2 = 0

\* ------------------------------------------------------------------------
\* C29: CAN payload packing round-trips: for every chunk length 0..8 the
\* index map used when sending (byte k to DATA[3-k] for k < 4, DATA[11-k]
\* for 4 <= k < 8) stays within DATA[0..7], is injective, and is inverted by
\* check_rx_buffer: a message unpacked after being packed yields the
\* original bytes in the original order.
C29_RoundTrip ==
    /\ \A k \in 0..7 : PackIndex(k) \in DataIndex
    /\ \A k \in 0..7 : PackIndex(k) = (IF k < 4 THEN 3 - k ELSE 11 - k)
    /\ \A j, k \in 0..7 : PackIndex(j) = PackIndex(k) => j = k
    /\ \A k \in 0..7 : UnpackIndex(k) = PackIndex(k)
    /\ can_pc \in {"send", "checked"}
          => /\ chunk_size \in 0..8
             /\ pmsg.DLC = chunk_size
             /\ \A k \in 0..(chunk_size - 1) :
                   pmsg.DATA[PackIndex(k)] = g_uart_to_can[k + (count * 8)]
    /\ can_pc = "checked"
          => /\ rx_buf = pmsg
             /\ \A k \in 0..(chunk_size - 1) :
                   g_can_to_uart[k] = g_uart_to_can[k + (count * 8)]

C29_Witness ==
    /\ can_pc = "checked"
    /\ chunk_size = 8
    /\ msg_len = 9
    /\ count = 2
    /\ g_uart_to_can[16] = 17
    /\ rx_buf.DATA[3] = 17
    /\ rx_buf.DATA[4] = 24
    /\ g_can_to_uart = [k \in 0..(CAN_TO_UART_SIZE - 1) |-> 17 + k]

\* ------------------------------------------------------------------------
\* C30: the CAN send loop always terminates and stops at the first failed
\* send: after a send returns a status other than CAN_VALID_MSG no further
\* message is sent, count equals the number of messages sent successfully,
\* and "Unable to send data via CAN Bus" is reported iff count is 0,
\* "Everything sent" iff all messages succeeded.
LoopDone == can_pc \in {"report", "key"}

\* Between the start of the loop and the next line typed.
InOrAfterLoop == can_pc \in {"loop", "pack", "send", "wait", "report", "key"}

C30_StopsAndReports ==
    /\ (InOrAfterLoop /\ error_flag # 0) => tried = Len(sent) + 1
    /\ (InOrAfterLoop /\ error_flag = 0) => tried = Len(sent)
    /\ can_pc = "pack" \/ can_pc = "send" => error_flag = 0
    /\ LoopDone => count = Len(sent)
    /\ can_pc = "key"
          => /\ (report = "Unable to send data via CAN Bus") <=> (count = 0)
             /\ (report = "It should be same as the data transmitted from UART terminal")
                   <=> (tried = Len(sent))

C30_Original ==
    /\ [](C30_StopsAndReports)
    /\ (can_pc = "loop" ~> LoopDone)

\* The same for the BasicCAN example alone.
C30_BasicOnly ==
    /\ [](C30_StopsAndReports)
    /\ ((can_pc = "loop" /\ can_mode = "BasicCAN") ~> LoopDone)

====
